---- MODULE Spec2Model ----
(***************************************************************************)
(* Model of the package registry service (internal/service, PackageService) *)
(* with its two stores: the relational metadata store reached through gorm  *)
(* and the MinIO object store reached through internal/minio.Client.        *)
(*                                                                          *)
(* Strings that the code takes apart or builds (package names, version      *)
(* labels, object keys, artifact bytes) are sequences of one-character      *)
(* strings.  Error values are the messages the service creates; the text    *)
(* a wrapped driver error adds after the service's own prefix is left out.  *)
(***************************************************************************)
EXTENDS Integers, Sequences, FiniteSets, TLC

(* ------------------------------------------------------------------ *)
(* Bounds of the model                                                 *)
(* ------------------------------------------------------------------ *)
\* the number of requests the server accepts in one behaviour
MaxCalls == 4

(* ------------------------------------------------------------------ *)
(* Input domains                                                       *)
(* ------------------------------------------------------------------ *)
Workers == {"w1", "w2"}

Users == {1, 2}

\* a nil *uint: the request carries no identity
NoUser == -1

Callers == Users \cup {NoUser}

PackageNames == {<<"p">>}

VersionLabels == {<<"1">>}

Contents == {<<"a", "b", "c">>, <<"x", "y">>}

(* ------------------------------------------------------------------ *)
(* Strings                                                             *)
(* ------------------------------------------------------------------ *)
StrPackages == <<"p", "a", "c", "k", "a", "g", "e", "s">>

StrPkgSuffix == <<".", "p", "k", "g">>

\* strings.ReplaceAll(s, "/", "_")
ReplaceSlash(s) == [i \in 1..Len(s) |-> IF s[i] = "/" THEN "_" ELSE s[i]]

\* fmt.Sprintf("packages/%s/%s/%s-%s.pkg", clean(name), clean(version), clean(name), clean(version))
buildObjectName(packageName, version) ==
    LET cleanPackageName == ReplaceSlash(packageName)
        cleanVersion == ReplaceSlash(version)
    IN  StrPackages \o <<"/">> \o cleanPackageName \o <<"/">> \o cleanVersion
          \o <<"/">> \o cleanPackageName \o <<"-">> \o cleanVersion \o StrPkgSuffix

\* fmt.Sprintf("packages/%s/%s", packageName, req.Version)
MinIOPath(packageName, version) ==
    StrPackages \o <<"/">> \o packageName \o <<"/">> \o version

\* sha256 of the bytes read, hex encoded: injective on the artifacts of the model
Sha256Hex(bytes) == <<"sha256", bytes>>

ObjectKeys == {buildObjectName(n, v) : n \in PackageNames, v \in VersionLabels}

NoObject == <<"no object">>

(* ------------------------------------------------------------------ *)
(* Errors of the service and their translation by the handlers         *)
(* ------------------------------------------------------------------ *)
NoErr == "nil"

Panic == "panic"

\* strings.Contains(err.Error(), phrase) on the messages the service creates
ErrContains(err, phrase) ==
    CASE phrase = "not found" ->
            err \in {"package not found", "package version not found",
                     "failed to download package from storage: package not found",
                     "failed to reload package: record not found"}
      [] phrase = "permission denied" -> err = "permission denied"
      [] phrase = "already exists" ->
            err \in {"package name already exists", "version already exists"}
      [] phrase = "access denied" -> err = "access denied to private package"
      [] OTHER -> FALSE

\* HTTP status the handler of operation op answers for the service result err
HandlerStatus(op, err) ==
    IF err = NoErr THEN 200
    ELSE IF err = Panic THEN 500
    ELSE IF op = "CreatePackage"
         THEN (IF ErrContains(err, "already exists") THEN 409 ELSE 500)
    ELSE IF op \in {"UpdatePackage", "DeletePackage", "DeletePackageVersion"}
         THEN (IF ErrContains(err, "not found") THEN 404
               ELSE IF ErrContains(err, "permission denied") THEN 403 ELSE 500)
    ELSE IF op = "UploadPackageVersion"
         THEN (IF ErrContains(err, "not found") THEN 404
               ELSE IF ErrContains(err, "permission denied") THEN 403
               ELSE IF ErrContains(err, "already exists") THEN 409 ELSE 500)
    ELSE (IF ErrContains(err, "not found") THEN 404
          ELSE IF ErrContains(err, "access denied") THEN 403 ELSE 500)

(* ------------------------------------------------------------------ *)
(* State                                                               *)
(* ------------------------------------------------------------------ *)
VARIABLES
    packages,     \* table packages: row i has primary key i
    versions,     \* table package_versions: row i has primary key i
    downloads,    \* table package_downloads (rows are removed physically)
    objects,      \* the bucket: object key -> bytes, or NoObject
    minioClient,  \* "ok", or "nil" when main started without object storage
    proc,         \* per request worker: the request it serves and its position
    tasks,        \* accounting goroutines started by downloads, still running
    calls,        \* number of requests accepted so far
    history,      \* the downloads served and the accounting that was lost
    probe         \* a read-only call under examination: its input and its result

vars == <<packages, versions, downloads, objects, minioClient, proc, tasks, calls,
         history, probe>>

\* the zero value of models.Package, as left by a Preload that finds no row
ZeroPackage ==
    [name |-> <<>>, description |-> "", author |-> "", homepage |-> "",
     repository |-> "", license |-> "", keywords |-> <<>>, is_private |-> FALSE,
     owner_id |-> 0, deleted |-> FALSE]

\* no call under examination
NoProbe == [fn |-> "none"]

Idle ==
    [op |-> "none", pc |-> "idle", name |-> <<>>, version |-> <<>>,
     user |-> NoUser, content |-> <<>>, isPrivate |-> FALSE, req |-> "none",
     pkgID |-> 0, verID |-> 0, todo |-> <<>>, attempted |-> <<>>,
     committed |-> FALSE, size |-> 0, err |-> NoErr, body |-> <<>>]

Init ==
    /\ packages = <<>>
    /\ versions = <<>>
    /\ downloads = <<>>
    /\ objects = [k \in ObjectKeys |-> NoObject]
    /\ minioClient \in {"ok", "nil"}
    /\ proc = [w \in Workers |-> Idle]
    /\ tasks = <<>>
    /\ calls = 0
    /\ history = [served |-> <<>>, lost |-> {}]
    /\ probe = NoProbe

(* ------------------------------------------------------------------ *)
(* Queries of the metadata store                                       *)
(* ------------------------------------------------------------------ *)
Min(S) == CHOOSE x \in S : \A y \in S : x <= y

\* db.Where("name = ?", name).First(&pkg): soft-deleted rows are excluded,
\* the first row by primary key is returned; 0 stands for ErrRecordNotFound
FirstPackageByName(name) ==
    LET found == {i \in DOMAIN packages :
                     packages[i].name = name /\ ~packages[i].deleted}
    IN  IF found = {} THEN 0 ELSE Min(found)

\* SELECT id FROM packages WHERE name = ?  (raw SQL: no soft-delete filter)
PackageIDsByName(name) == {i \in DOMAIN packages : packages[i].name = name}

\* db.Where("package_id = ? AND version = ?", id, v).First(&existingVersion)
FirstVersionOfPackage(pkgID, version) ==
    LET found == {i \in DOMAIN versions :
                     /\ versions[i].package_id = pkgID
                     /\ versions[i].version = version
                     /\ ~versions[i].deleted}
    IN  IF found = {} THEN 0 ELSE Min(found)

\* db.Where("package_id = (SELECT id FROM packages WHERE name = ?) AND version = ?")
\*   .First(&pkgVersion)
FirstVersionByName(name, version) ==
    LET found == {i \in DOMAIN versions :
                     /\ versions[i].package_id \in PackageIDsByName(name)
                     /\ versions[i].version = version
                     /\ ~versions[i].deleted}
    IN  IF found = {} THEN 0 ELSE Min(found)

\* Preload("Package"): the related row is read with the soft-delete filter
PreloadPackage(verID) ==
    LET pid == versions[verID].package_id
    IN  IF pid \in DOMAIN packages /\ ~packages[pid].deleted
        THEN packages[pid] ELSE ZeroPackage

\* GetPackage: the error it returns
GetPackage(packageName) ==
    IF FirstPackageByName(packageName) = 0 THEN "package not found" ELSE NoErr

(* ------------------------------------------------------------------ *)
(* Request workers                                                     *)
(* ------------------------------------------------------------------ *)
\* a worker takes a new request when it serves none
Ready(w) == proc[w].pc \in {"idle", "done"}

\* the worker accepts one more request
Accept(w) ==
    /\ Ready(w)
    /\ calls < MaxCalls
    /\ calls' = calls + 1

New(op, name, version, user) ==
    [Idle EXCEPT !.op = op, !.name = name, !.version = version, !.user = user]

\* the call returns e to its handler; of the call the worker keeps what it was
\* asked, by whom, the rows it worked on and what it did to the stores
Return(w, r, e) ==
    proc' = [proc EXCEPT ![w] =
                [r EXCEPT !.pc = "done", !.err = e, !.todo = <<>>, !.size = 0,
                          !.content = <<>>, !.isPrivate = FALSE, !.req = "none"]]

Goto(w, r, label) == proc' = [proc EXCEPT ![w] = [r EXCEPT !.pc = label]]

(* ------------------------------------------------------------------ *)
(* CreatePackage                                                       *)
(* ------------------------------------------------------------------ *)
\* the elements of a JSON array of strings: each keyword (one character in the
\* model) between double quotes, separated by commas
RECURSIVE QuotedList(_)
QuotedList(list) ==
    IF list = <<>> THEN <<>>
    ELSE <<"\"", Head(list), "\"">>
           \o (IF Tail(list) = <<>> THEN <<>> ELSE <<",">>)
           \o QuotedList(Tail(list))

\* json.Marshal of a list of keywords: the text ["k1","k2"]
JSONMarshal(list) == <<"[">> \o QuotedList(list) \o <<"]">>

\* the row CreatePackage inserts for its request
NewPackageRow(req, ownerID) ==
    [name |-> req.name, description |-> req.description, author |-> req.author,
     homepage |-> req.homepage, repository |-> req.repository,
     license |-> req.license,
     keywords |-> IF Len(req.keywords) > 0 THEN JSONMarshal(req.keywords) ELSE <<>>,
     is_private |-> req.is_private, owner_id |-> ownerID, deleted |-> FALSE]

\* the CreatePackageRequest bodies of the model
CreateRequest(name, isPrivate) ==
    [name |-> name, description |-> "", author |-> "", homepage |-> "",
     repository |-> "", license |-> "", keywords |-> <<>>,
     is_private |-> isPrivate]

\* unique index idx_package_name on packages(name): it covers soft-deleted rows
PackageNameTaken(name) == \E i \in DOMAIN packages : packages[i].name = name

\* CreatePackage without its existence check on the name
CreatePackageCheck_NoLookup(w) ==
    /\ Accept(w)
    /\ \E name \in PackageNames, ownerID \in Users, isPrivate \in BOOLEAN :
          Goto(w, [New("CreatePackage", name, <<>>, ownerID)
                      EXCEPT !.isPrivate = isPrivate], "cp_insert")
    /\ UNCHANGED <<packages, versions, downloads, objects, minioClient, tasks, history, probe>>

\* the existence check on the name
CreatePackageCheck(w) ==
    /\ Accept(w)
    /\ \E name \in PackageNames, ownerID \in Users, isPrivate \in BOOLEAN :
          LET r == [New("CreatePackage", name, <<>>, ownerID)
                       EXCEPT !.isPrivate = isPrivate]
          IN  IF FirstPackageByName(name) # 0
              THEN Return(w, r, "package name already exists")
              ELSE Goto(w, r, "cp_insert")
    /\ UNCHANGED <<packages, versions, downloads, objects, minioClient, tasks, history, probe>>

\* db.Create(pkg), then the reload of the created row
CreatePackageInsert(w) ==
    LET r == proc[w]
    IN  /\ r.pc = "cp_insert"
        /\ IF PackageNameTaken(r.name)
           THEN /\ Return(w, r, "failed to create package")
                /\ UNCHANGED packages
           ELSE /\ packages' = Append(packages,
                       NewPackageRow(CreateRequest(r.name, r.isPrivate), r.user))
                /\ Return(w, [r EXCEPT !.pkgID = Len(packages) + 1], NoErr)
        /\ UNCHANGED <<versions, downloads, objects, minioClient, tasks, calls, history, probe>>

(* ------------------------------------------------------------------ *)
(* UpdatePackage                                                       *)
(* ------------------------------------------------------------------ *)
NilBool == [set |-> FALSE, val |-> FALSE]

BoolPtr(b) == [set |-> TRUE, val |-> b]

EmptyUpdate ==
    [description |-> "", author |-> "", homepage |-> "", repository |-> "",
     license |-> "", keywords |-> <<>>, is_private |-> NilBool]

\* a field of a JSON body: present with a value, or absent
Given(v) == [set |-> TRUE, val |-> v]

NoString == [set |-> FALSE, val |-> ""]

NoList == [set |-> FALSE, val |-> <<>>]

NoFlag == [set |-> FALSE, val |-> FALSE]

\* the JSON body {}
EmptyBody ==
    [description |-> NoString, author |-> NoString, homepage |-> NoString,
     repository |-> NoString, license |-> NoString, keywords |-> NoList,
     is_private |-> NoFlag]

\* the JSON bodies of the update requests of the model, by name
UpdateRequests ==
    [setPublic |-> [EmptyBody EXCEPT !.is_private = Given(FALSE)],
     setDescription |-> [EmptyBody EXCEPT !.description = Given("d")],
     clearDescription |-> [EmptyBody EXCEPT !.description = Given("")],
     setDetails |-> [EmptyBody EXCEPT !.author = Given("a"),
                                      !.homepage = Given("h"),
                                      !.repository = Given("r"),
                                      !.license = Given("l"),
                                      !.keywords = Given(<<"k">>)]]

\* c.ShouldBindJSON(&req): the UpdatePackageRequest decoded from a body; a
\* string or list the body does not name keeps its zero value, the pointer
\* IsPrivate stays nil
ShouldBindJSON(body) ==
    [EmptyUpdate EXCEPT
        !.description = IF body.description.set THEN body.description.val ELSE @,
        !.author = IF body.author.set THEN body.author.val ELSE @,
        !.homepage = IF body.homepage.set THEN body.homepage.val ELSE @,
        !.repository = IF body.repository.set THEN body.repository.val ELSE @,
        !.license = IF body.license.set THEN body.license.val ELSE @,
        !.keywords = IF body.keywords.set THEN body.keywords.val ELSE @,
        !.is_private = IF body.is_private.set THEN BoolPtr(body.is_private.val)
                       ELSE @]

\* the row written back whole from the request, as db.Save would
ApplyUpdates_Save(pkg, req) ==
    [pkg EXCEPT
        !.description = req.description,
        !.author = req.author,
        !.homepage = req.homepage,
        !.repository = req.repository,
        !.license = req.license,
        !.is_private = IF req.is_private.set THEN req.is_private.val ELSE @,
        !.keywords = IF Len(req.keywords) > 0 THEN JSONMarshal(req.keywords) ELSE <<>>]

\* the updates map built from the request, applied to the row
ApplyUpdates(pkg, req) ==
    [pkg EXCEPT
        !.description = IF req.description # "" THEN req.description ELSE @,
        !.author = IF req.author # "" THEN req.author ELSE @,
        !.homepage = IF req.homepage # "" THEN req.homepage ELSE @,
        !.repository = IF req.repository # "" THEN req.repository ELSE @,
        !.license = IF req.license # "" THEN req.license ELSE @,
        !.is_private = IF req.is_private.set THEN req.is_private.val ELSE @,
        !.keywords = IF Len(req.keywords) > 0 THEN JSONMarshal(req.keywords) ELSE @]

\* lookup by name and ownership check
UpdatePackageFind(w) ==
    /\ Accept(w)
    /\ \E name \in PackageNames, userID \in Users, req \in DOMAIN UpdateRequests :
          LET id == FirstPackageByName(name)
              r == [New("UpdatePackage", name, <<>>, userID) EXCEPT !.req = req]
          IN  IF id = 0 THEN Return(w, r, "package not found")
              ELSE IF packages[id].owner_id # userID
                   THEN Return(w, r, "permission denied")
              ELSE Goto(w, [r EXCEPT !.pkgID = id], "up_apply")
    /\ UNCHANGED <<packages, versions, downloads, objects, minioClient, tasks, history, probe>>

\* db.Model(&pkg).Updates(updates), then the reload of the row
UpdatePackageApply(w) ==
    LET r == proc[w]
    IN  /\ r.pc = "up_apply"
        /\ IF packages[r.pkgID].deleted
           THEN /\ Return(w, r, "failed to reload package: record not found")
                /\ UNCHANGED packages
           ELSE /\ packages' = [packages EXCEPT ![r.pkgID] =
                                   ApplyUpdates(@, ShouldBindJSON(UpdateRequests[r.req]))]
                /\ Return(w, r, NoErr)
        /\ UNCHANGED <<versions, downloads, objects, minioClient, tasks, calls, history, probe>>

(* ------------------------------------------------------------------ *)
(* Object store client (internal/minio.Client)                         *)
(* ------------------------------------------------------------------ *)
\* the bucket after RemoveObject of the object of (packageName, version) succeeded
RemoveObject(packageName, version) ==
    [objects EXCEPT ![buildObjectName(packageName, version)] = NoObject]

\* PutObject storing one byte less than it was given
PutObject_Truncated(packageName, version, bytes) ==
    [objects EXCEPT ![buildObjectName(packageName, version)] =
        SubSeq(bytes, 1, Len(bytes) - 1)]

\* the bucket after PutObject of bytes for (packageName, version) succeeded
PutObject(packageName, version, bytes) ==
    [objects EXCEPT ![buildObjectName(packageName, version)] = bytes]

\* Client.DeletePackage on a usable client: the object is removed, or the call
\* fails and the bucket is as before
ClientDeletePackage(packageName, version) ==
    \/ objects' = RemoveObject(packageName, version)
    \/ UNCHANGED objects

(* ------------------------------------------------------------------ *)
(* DeletePackage                                                       *)
(* ------------------------------------------------------------------ *)
\* the labels of the visible version rows of package pkgID, from row i on, by id
RECURSIVE LabelsFrom(_, _)
LabelsFrom(i, pkgID) ==
    IF i > Len(versions) THEN <<>>
    ELSE IF versions[i].package_id = pkgID /\ ~versions[i].deleted
         THEN <<versions[i].version>> \o LabelsFrom(i + 1, pkgID)
         ELSE LabelsFrom(i + 1, pkgID)

\* SELECT id FROM package_versions WHERE package_id = ?  (raw SQL)
VersionIDsOfPackage(pkgID) ==
    {i \in DOMAIN versions : versions[i].package_id = pkgID}

\* lookup by name and ownership check
DeletePackageFind(w) ==
    /\ Accept(w)
    /\ \E name \in PackageNames, userID \in Users :
          LET id == FirstPackageByName(name)
              r == New("DeletePackage", name, <<>>, userID)
          IN  IF id = 0 THEN Return(w, r, "package not found")
              ELSE IF packages[id].owner_id # userID
                   THEN Return(w, r, "permission denied")
              ELSE Goto(w, [r EXCEPT !.pkgID = id], "dp_load")
    /\ UNCHANGED <<packages, versions, downloads, objects, minioClient, tasks, history, probe>>

\* db.Begin(), then tx.Where("package_id = ?").Find(&versions)
DeletePackageLoadVersions(w) ==
    LET r == proc[w]
        found == LabelsFrom(1, r.pkgID)
    IN  /\ r.pc = "dp_load"
        /\ Goto(w, [r EXCEPT !.todo = found],
                IF found = <<>> THEN "dp_tx" ELSE "dp_blob")
        /\ UNCHANGED <<packages, versions, downloads, objects, minioClient, tasks, calls, history, probe>>

\* one iteration of the loop over the loaded versions: the blob delete.  On a
\* nil client the call panics; the deferred recover rolls the transaction back
\* and the function returns its zero result, a nil error.
DeletePackageBlob(w) ==
    LET r == proc[w]
    IN  /\ r.pc = "dp_blob"
        /\ IF minioClient = "nil"
           THEN /\ Return(w, r, NoErr)
                /\ UNCHANGED objects
           ELSE /\ ClientDeletePackage(r.name, Head(r.todo))
                /\ Goto(w, [r EXCEPT !.todo = Tail(r.todo),
                                     !.attempted = Append(@, Head(r.todo))],
                        IF Tail(r.todo) = <<>> THEN "dp_tx" ELSE "dp_blob")
        /\ UNCHANGED <<packages, versions, downloads, minioClient, tasks, calls, history, probe>>

DeletePackageTxErrors ==
    {"failed to delete download records", "failed to delete package versions",
     "failed to delete package", "commit failed"}

\* the three deletes of the transaction and its commit; a failure of any of
\* them leaves the metadata as it was
DeletePackageTx(w) ==
    LET r == proc[w]
        vids == VersionIDsOfPackage(r.pkgID)
        keep(d) == d.package_version_id \notin vids
    IN  /\ r.pc = "dp_tx"
        /\ \/ /\ \E e \in DeletePackageTxErrors : Return(w, r, e)
              /\ UNCHANGED <<packages, versions, downloads>>
           \/ /\ downloads' = SelectSeq(downloads, keep)
              /\ versions' = [i \in DOMAIN versions |->
                                IF versions[i].package_id = r.pkgID
                                THEN [versions[i] EXCEPT !.deleted = TRUE]
                                ELSE versions[i]]
              /\ packages' = [packages EXCEPT ![r.pkgID].deleted = TRUE]
              /\ Return(w, [r EXCEPT !.committed = TRUE], NoErr)
        /\ UNCHANGED <<objects, minioClient, tasks, calls, history, probe>>

(* ------------------------------------------------------------------ *)
(* UploadPackageVersion                                                *)
(* ------------------------------------------------------------------ *)
\* unique index idx_package_version on package_versions(version): the tag is
\* on the Version column alone, and the index covers soft-deleted rows
VersionLabelTaken(version) ==
    \E i \in DOMAIN versions : versions[i].version = version

NewVersionRow(pkgID, packageName, version, size, bytes, uploaderID) ==
    [package_id |-> pkgID, version |-> version, file_size |-> size,
     file_hash |-> Sha256Hex(bytes), minio_path |-> MinIOPath(packageName, version),
     download_count |-> 0, uploader_id |-> uploaderID, deleted |-> FALSE]

\* lookup of the package by name and ownership check
UploadPackageVersionFind(w) ==
    /\ Accept(w)
    /\ \E name \in PackageNames, version \in VersionLabels,
          uploaderID \in Users, bytes \in Contents :
          LET id == FirstPackageByName(name)
              r == [New("UploadPackageVersion", name, version, uploaderID)
                       EXCEPT !.content = bytes]
          IN  IF id = 0 THEN Return(w, r, "package not found")
              ELSE IF packages[id].owner_id # uploaderID
                   THEN Return(w, r, "permission denied")
              ELSE Goto(w, [r EXCEPT !.pkgID = id], "uv_check")
    /\ UNCHANGED <<packages, versions, downloads, objects, minioClient, tasks, history, probe>>

\* UploadPackageVersion without its existence check on (package_id, version)
UploadPackageVersionCheck_NoLookup(w) ==
    /\ proc[w].pc = "uv_check"
    /\ Goto(w, proc[w], "uv_put")
    /\ UNCHANGED <<packages, versions, downloads, objects, minioClient, tasks, calls, history, probe>>

\* the existence check on (package_id, version)
UploadPackageVersionCheck(w) ==
    LET r == proc[w]
    IN  /\ r.pc = "uv_check"
        /\ IF FirstVersionOfPackage(r.pkgID, r.version) # 0
           THEN Return(w, r, "version already exists")
           ELSE Goto(w, r, "uv_put")
        /\ UNCHANGED <<packages, versions, downloads, objects, minioClient, tasks, calls, history, probe>>

\* Client.UploadPackage going on to the insert of the row although PutObject
\* failed
UploadPackageVersionPut_IgnoreFailure(w) ==
    LET r == proc[w]
    IN  /\ r.pc = "uv_put"
        /\ IF minioClient = "nil"
           THEN /\ Return(w, r, Panic)
                /\ UNCHANGED objects
           ELSE \/ /\ Goto(w, r, "uv_insert")
                   /\ UNCHANGED objects
                \/ /\ objects' = PutObject(r.name, r.version, r.content)
                   /\ Goto(w, r, "uv_stat")
        /\ UNCHANGED <<packages, versions, downloads, minioClient, tasks, calls, history, probe>>

\* Client.UploadPackage, first half: PutObject of the stream (the hasher sees
\* the bytes the client reads).  A nil client panics.
UploadPackageVersionPut(w) ==
    LET r == proc[w]
    IN  /\ r.pc = "uv_put"
        /\ IF minioClient = "nil"
           THEN /\ Return(w, r, Panic)
                /\ UNCHANGED objects
           ELSE \/ /\ Return(w, r, "failed to upload package to storage")
                   /\ UNCHANGED objects
                \/ /\ objects' = PutObject(r.name, r.version, r.content)
                   /\ Goto(w, r, "uv_stat")
        /\ UNCHANGED <<packages, versions, downloads, minioClient, tasks, calls, history, probe>>

\* Client.UploadPackage, second half: StatObject of the key just written
UploadPackageVersionStat(w) ==
    LET r == proc[w]
        obj == objects[buildObjectName(r.name, r.version)]
    IN  /\ r.pc = "uv_stat"
        /\ IF obj = NoObject
           THEN Return(w, r, "failed to upload package to storage")
           ELSE Goto(w, [r EXCEPT !.size = Len(obj)], "uv_insert")
        /\ UNCHANGED <<packages, versions, downloads, objects, minioClient, tasks, calls, history, probe>>

\* UploadPackageVersion returning the insert failure without the delete of the
\* uploaded object
UploadPackageVersionInsert_NoCompensation(w) ==
    LET r == proc[w]
    IN  /\ r.pc = "uv_insert"
        /\ \/ /\ Return(w, r, "failed to create version record")
              /\ UNCHANGED <<versions, objects>>
           \/ /\ ~VersionLabelTaken(r.version)
              /\ versions' = Append(versions,
                    NewVersionRow(r.pkgID, r.name, r.version, r.size, r.content, r.user))
              /\ Return(w, [r EXCEPT !.verID = Len(versions) + 1], NoErr)
              /\ UNCHANGED objects
        /\ UNCHANGED <<packages, downloads, minioClient, tasks, calls, history, probe>>

\* db.Create(version); when it fails (on the unique index, or for any other
\* reason), the delete of the uploaded object; when it succeeds, the reload of
\* the row
UploadPackageVersionInsert(w) ==
    LET r == proc[w]
    IN  /\ r.pc = "uv_insert"
        /\ \/ /\ ClientDeletePackage(r.name, r.version)
              /\ Return(w, [r EXCEPT !.attempted = <<r.version>>],
                        "failed to create version record")
              /\ UNCHANGED versions
           \/ /\ ~VersionLabelTaken(r.version)
              /\ versions' = Append(versions,
                    NewVersionRow(r.pkgID, r.name, r.version, r.size, r.content, r.user))
              /\ Return(w, [r EXCEPT !.verID = Len(versions) + 1], NoErr)
              /\ UNCHANGED objects
        /\ UNCHANGED <<packages, downloads, minioClient, tasks, calls, history, probe>>

(* ------------------------------------------------------------------ *)
(* DeletePackageVersion                                                *)
(* ------------------------------------------------------------------ *)
\* lookup of the version with its package preloaded, and ownership check
DeletePackageVersionFind(w) ==
    /\ Accept(w)
    /\ \E name \in PackageNames, version \in VersionLabels, userID \in Users :
          LET id == FirstVersionByName(name, version)
              r == New("DeletePackageVersion", name, version, userID)
          IN  IF id = 0 THEN Return(w, r, "package version not found")
              ELSE IF PreloadPackage(id).owner_id # userID
                   THEN Return(w, r, "permission denied")
              ELSE Goto(w, [r EXCEPT !.verID = id], "dv_tx")
    /\ UNCHANGED <<packages, versions, downloads, objects, minioClient, tasks, history, probe>>

DeletePackageVersionTxErrors ==
    {"failed to delete download records", "failed to delete version",
     "failed to commit transaction"}

\* DeletePackageVersion deleting the blob inside the transaction, before the
\* commit
DeletePackageVersionTx_BlobFirst(w) ==
    LET r == proc[w]
        keep(d) == d.package_version_id # r.verID
    IN  /\ r.pc = "dv_tx"
        /\ objects' = RemoveObject(r.name, r.version)
        /\ \/ /\ \E e \in DeletePackageVersionTxErrors :
                    Return(w, [r EXCEPT !.attempted = <<r.version>>], e)
              /\ UNCHANGED <<versions, downloads>>
           \/ /\ downloads' = SelectSeq(downloads, keep)
              /\ versions' = [versions EXCEPT ![r.verID].deleted = TRUE]
              /\ Goto(w, [r EXCEPT !.committed = TRUE], "dv_blob")
        /\ UNCHANGED <<packages, minioClient, tasks, calls, history, probe>>

\* the transaction: delete of the download rows, delete of the version row,
\* commit; a failure of any of them leaves the metadata as it was
DeletePackageVersionTx(w) ==
    LET r == proc[w]
        keep(d) == d.package_version_id # r.verID
    IN  /\ r.pc = "dv_tx"
        /\ \/ /\ \E e \in DeletePackageVersionTxErrors : Return(w, r, e)
              /\ UNCHANGED <<versions, downloads>>
           \/ /\ downloads' = SelectSeq(downloads, keep)
              /\ versions' = [versions EXCEPT ![r.verID].deleted = TRUE]
              /\ Goto(w, [r EXCEPT !.committed = TRUE], "dv_blob")
        /\ UNCHANGED <<packages, objects, minioClient, tasks, calls, history, probe>>

\* the blob delete after the commit; its failure is logged only.  On a nil
\* client the call panics and the deferred recover makes the function return
\* its zero result, a nil error.
DeletePackageVersionBlob(w) ==
    LET r == proc[w]
    IN  /\ r.pc = "dv_blob"
        /\ IF minioClient = "nil"
           THEN /\ Return(w, r, NoErr)
                /\ UNCHANGED objects
           ELSE /\ ClientDeletePackage(r.name, r.version)
                /\ Return(w, [r EXCEPT !.attempted = <<r.version>>], NoErr)
        /\ UNCHANGED <<packages, versions, downloads, minioClient, tasks, calls, history, probe>>

(* ------------------------------------------------------------------ *)
(* DownloadPackageVersion and its accounting goroutine                 *)
(* ------------------------------------------------------------------ *)
\* the lookup and the private-package check of DownloadPackageVersion: the
\* error they end the call with, or NoErr when the call goes on
DownloadPackageVersionCheck(packageName, version, userID) ==
    LET id == FirstVersionByName(packageName, version)
    IN  IF id = 0 THEN "package version not found"
        ELSE IF /\ PreloadPackage(id).is_private
                /\ (userID = NoUser \/ PreloadPackage(id).owner_id # userID)
             THEN "access denied to private package"
        ELSE NoErr

DownloadPackageVersionFind(w) ==
    /\ Accept(w)
    /\ \E name \in PackageNames, version \in VersionLabels, userID \in Callers :
          LET e == DownloadPackageVersionCheck(name, version, userID)
              r == New("DownloadPackageVersion", name, version, userID)
          IN  IF e # NoErr THEN Return(w, r, e)
              ELSE Goto(w, [r EXCEPT !.verID = FirstVersionByName(name, version)],
                        "dl_get")
    /\ UNCHANGED <<packages, versions, downloads, objects, minioClient, tasks, history, probe>>

\* c.DataFromReader(200, FileSize, ..., reader): the response declares FileSize
\* bytes and carries the bytes of the reader up to that length
DataFromReader(contentLength, reader) ==
    SubSeq(reader, 1, IF contentLength < Len(reader) THEN contentLength
                      ELSE Len(reader))

\* Client.DownloadPackage (StatObject, GetObject), then the start of the
\* accounting goroutine and the return of the stream.  A nil client panics.
DownloadPackageVersionGet(w) ==
    LET r == proc[w]
        obj == objects[buildObjectName(r.name, r.version)]
    IN  /\ r.pc = "dl_get"
        /\ IF minioClient = "nil"
           THEN /\ Return(w, r, Panic)
                /\ UNCHANGED <<tasks, history>>
           ELSE IF obj = NoObject
           THEN /\ Return(w, r,
                     "failed to download package from storage: package not found")
                /\ UNCHANGED <<tasks, history>>
           ELSE /\ Return(w, [r EXCEPT !.body =
                              DataFromReader(versions[r.verID].file_size, obj)],
                          NoErr)
                /\ tasks' = Append(tasks,
                      [verID |-> r.verID, user |-> r.user, pc |-> "create"])
                /\ history' = [history EXCEPT !.served = Append(@, r.verID)]
        /\ UNCHANGED <<packages, versions, downloads, objects, minioClient, calls, probe>>

RemoveAt(s, i) == SubSeq(s, 1, i - 1) \o SubSeq(s, i + 1, Len(s))

\* goroutine: db.Create(downloadRecord); a failure is logged and the goroutine
\* goes on
AccountingCreate(i) ==
    /\ i \in DOMAIN tasks
    /\ tasks[i].pc = "create"
    /\ \/ /\ downloads' = Append(downloads,
                [package_version_id |-> tasks[i].verID, user_id |-> tasks[i].user])
          /\ UNCHANGED history
       \/ /\ UNCHANGED downloads
          /\ history' = [history EXCEPT !.lost = @ \cup {tasks[i].verID}]
    /\ tasks' = [tasks EXCEPT ![i].pc = "update"]
    /\ UNCHANGED <<packages, versions, objects, minioClient, proc, calls, probe>>

\* the counter update writing back a value read before another increment
AccountingUpdate_LostUpdate(i) ==
    /\ i \in DOMAIN tasks
    /\ tasks[i].pc = "update"
    /\ \/ /\ versions' = [versions EXCEPT ![tasks[i].verID] =
                            IF @.deleted THEN @
                            ELSE [@ EXCEPT !.download_count = 1]]
          /\ UNCHANGED history
       \/ /\ UNCHANGED versions
          /\ history' = [history EXCEPT !.lost = @ \cup {tasks[i].verID}]
    /\ tasks' = RemoveAt(tasks, i)
    /\ UNCHANGED <<packages, downloads, objects, minioClient, proc, calls, probe>>

\* goroutine: UPDATE package_versions SET download_count = download_count + 1
\* WHERE id = ? AND deleted_at IS NULL; a failure is logged
AccountingUpdate(i) ==
    /\ i \in DOMAIN tasks
    /\ tasks[i].pc = "update"
    /\ \/ /\ versions' = [versions EXCEPT ![tasks[i].verID] =
                            IF @.deleted THEN @
                            ELSE [@ EXCEPT !.download_count = @ + 1]]
          /\ UNCHANGED history
       \/ /\ UNCHANGED versions
          /\ history' = [history EXCEPT !.lost = @ \cup {tasks[i].verID}]
    /\ tasks' = RemoveAt(tasks, i)
    /\ UNCHANGED <<packages, downloads, objects, minioClient, proc, calls, probe>>

(* ------------------------------------------------------------------ *)
(* GetDownloadURL                                                      *)
(* ------------------------------------------------------------------ *)
\* GetDownloadURL refusing only callers without identity
GetDownloadURLCheck_AnonymousOnly(packageName, version, userID) ==
    LET id == FirstVersionByName(packageName, version)
    IN  IF id = 0 THEN "package version not found"
        ELSE IF PreloadPackage(id).is_private /\ userID = NoUser
             THEN "access denied to private package"
        ELSE NoErr

\* the lookup and the private-package check of GetDownloadURL: the error they
\* end the call with, or NoErr when the call goes on
GetDownloadURLCheck(packageName, version, userID) ==
    LET id == FirstVersionByName(packageName, version)
    IN  IF id = 0 THEN "package version not found"
        ELSE IF /\ PreloadPackage(id).is_private
                /\ (userID = NoUser \/ PreloadPackage(id).owner_id # userID)
             THEN "access denied to private package"
        ELSE NoErr

\* GetDownloadURL starting the accounting goroutine of a download
GetDownloadURL_Accounted(w) ==
    /\ Accept(w)
    /\ \E name \in PackageNames, version \in VersionLabels, userID \in Callers :
          LET e == GetDownloadURLCheck(name, version, userID)
              r == New("GetDownloadURL", name, version, userID)
          IN  IF e # NoErr THEN Return(w, r, e)
              ELSE IF minioClient = "nil" THEN Return(w, r, Panic)
              ELSE Return(w, [r EXCEPT !.verID = FirstVersionByName(name, version)],
                          NoErr)
    /\ tasks' = Append(tasks, [verID |-> 1, user |-> NoUser, pc |-> "create"])
    /\ UNCHANGED <<packages, versions, downloads, objects, minioClient, history, probe>>

\* the whole call: checks, then the presigned URL of the client (a nil client
\* panics)
GetDownloadURL(w) ==
    /\ Accept(w)
    /\ \E name \in PackageNames, version \in VersionLabels, userID \in Callers :
          LET e == GetDownloadURLCheck(name, version, userID)
              r == New("GetDownloadURL", name, version, userID)
          IN  IF e # NoErr THEN Return(w, r, e)
              ELSE IF minioClient = "nil" THEN Return(w, r, Panic)
              ELSE Return(w, [r EXCEPT !.verID = FirstVersionByName(name, version)],
                          NoErr)
    /\ UNCHANGED <<packages, versions, downloads, objects, minioClient, tasks, history, probe>>

(* ------------------------------------------------------------------ *)
(* Process restart (main)                                              *)
(* ------------------------------------------------------------------ *)
\* The server drains its requests and exits; the next start of main gets a
\* MinIO client or, when NewClient fails, goes on with a nil client.  The
\* goroutines of the old process are gone; both stores keep their content.
Restart ==
    /\ \A w \in Workers : Ready(w)
    /\ minioClient' \in {"ok", "nil"}
    /\ proc' = [w \in Workers |-> Idle]
    /\ tasks' = <<>>
    /\ history' = [history EXCEPT
                      !.lost = @ \cup {tasks[i].verID : i \in DOMAIN tasks}]
    /\ UNCHANGED <<packages, versions, downloads, objects, calls, probe>>

(* ------------------------------------------------------------------ *)
(* Specification                                                       *)
(* ------------------------------------------------------------------ *)
Next ==
    \/ \E w \in Workers : CreatePackageCheck(w)
    \/ \E w \in Workers : CreatePackageInsert(w)
    \/ \E w \in Workers : UpdatePackageFind(w)
    \/ \E w \in Workers : UpdatePackageApply(w)
    \/ \E w \in Workers : DeletePackageFind(w)
    \/ \E w \in Workers : DeletePackageLoadVersions(w)
    \/ \E w \in Workers : DeletePackageBlob(w)
    \/ \E w \in Workers : DeletePackageTx(w)
    \/ \E w \in Workers : UploadPackageVersionFind(w)
    \/ \E w \in Workers : UploadPackageVersionCheck(w)
    \/ \E w \in Workers : UploadPackageVersionPut(w)
    \/ \E w \in Workers : UploadPackageVersionStat(w)
    \/ \E w \in Workers : UploadPackageVersionInsert(w)
    \/ \E w \in Workers : DeletePackageVersionFind(w)
    \/ \E w \in Workers : DeletePackageVersionTx(w)
    \/ \E w \in Workers : DeletePackageVersionBlob(w)
    \/ \E w \in Workers : DownloadPackageVersionFind(w)
    \/ \E w \in Workers : DownloadPackageVersionGet(w)
    \/ \E w \in Workers : GetDownloadURL(w)
    \/ \E i \in DOMAIN tasks : AccountingCreate(i)
    \/ \E i \in DOMAIN tasks : AccountingUpdate(i)
    \/ Restart

Spec == Init /\ [][Next]_vars

\* The calls served one at a time: a worker steps only while no other worker is
\* inside a call.  The accounting goroutines run in the background as before.
Quiet(w) == \A v \in Workers \ {w} : Ready(v)

NextSeq ==
    \/ \E w \in Workers : Quiet(w) /\ CreatePackageCheck(w)
    \/ \E w \in Workers : Quiet(w) /\ CreatePackageInsert(w)
    \/ \E w \in Workers : Quiet(w) /\ UpdatePackageFind(w)
    \/ \E w \in Workers : Quiet(w) /\ UpdatePackageApply(w)
    \/ \E w \in Workers : Quiet(w) /\ DeletePackageFind(w)
    \/ \E w \in Workers : Quiet(w) /\ DeletePackageLoadVersions(w)
    \/ \E w \in Workers : Quiet(w) /\ DeletePackageBlob(w)
    \/ \E w \in Workers : Quiet(w) /\ DeletePackageTx(w)
    \/ \E w \in Workers : Quiet(w) /\ UploadPackageVersionFind(w)
    \/ \E w \in Workers : Quiet(w) /\ UploadPackageVersionCheck(w)
    \/ \E w \in Workers : Quiet(w) /\ UploadPackageVersionPut(w)
    \/ \E w \in Workers : Quiet(w) /\ UploadPackageVersionStat(w)
    \/ \E w \in Workers : Quiet(w) /\ UploadPackageVersionInsert(w)
    \/ \E w \in Workers : Quiet(w) /\ DeletePackageVersionFind(w)
    \/ \E w \in Workers : Quiet(w) /\ DeletePackageVersionTx(w)
    \/ \E w \in Workers : Quiet(w) /\ DeletePackageVersionBlob(w)
    \/ \E w \in Workers : Quiet(w) /\ DownloadPackageVersionFind(w)
    \/ \E w \in Workers : Quiet(w) /\ DownloadPackageVersionGet(w)
    \/ \E w \in Workers : Quiet(w) /\ GetDownloadURL(w)
    \/ \E i \in DOMAIN tasks : AccountingCreate(i)
    \/ \E i \in DOMAIN tasks : AccountingUpdate(i)
    \/ Restart

SpecSeq == Init /\ [][NextSeq]_vars

(* ------------------------------------------------------------------ *)
(* A registry that already holds another package                       *)
(* ------------------------------------------------------------------ *)
\* Another owner has created package q and uploaded its version 1 before the
\* calls of the model begin.
OtherPackageName == <<"q">>

OtherOwner == 2

OtherContent == <<"x", "y">>

InitTwo ==
    /\ packages = <<NewPackageRow(CreateRequest(OtherPackageName, FALSE), OtherOwner)>>
    /\ versions = <<NewVersionRow(1, OtherPackageName, <<"1">>, Len(OtherContent),
                                  OtherContent, OtherOwner)>>
    /\ downloads = <<>>
    /\ objects = [k \in ObjectKeys \cup {buildObjectName(OtherPackageName, <<"1">>)} |->
                     IF k \in ObjectKeys THEN NoObject ELSE OtherContent]
    /\ minioClient \in {"ok", "nil"}
    /\ proc = [w \in Workers |-> Idle]
    /\ tasks = <<>>
    /\ calls = 0
    /\ history = [served |-> <<>>, lost |-> {}]
    /\ probe = NoProbe

\* the calls that create packages and upload versions
NextUpload ==
    \/ \E w \in Workers : CreatePackageCheck(w)
    \/ \E w \in Workers : CreatePackageInsert(w)
    \/ \E w \in Workers : UploadPackageVersionFind(w)
    \/ \E w \in Workers : UploadPackageVersionCheck(w)
    \/ \E w \in Workers : UploadPackageVersionPut(w)
    \/ \E w \in Workers : UploadPackageVersionStat(w)
    \/ \E w \in Workers : UploadPackageVersionInsert(w)
    \/ Restart

SpecTwo == InitTwo /\ [][NextUpload]_vars

(* ------------------------------------------------------------------ *)
(* Object keys: building and positional parsing                        *)
(* ------------------------------------------------------------------ *)
MaxNameLen == 3

MaxVersionLen == 2

KeyChars == {"a", "-", "/"}

\* the strings over chars of length lo to hi
Strings(chars, lo, hi) == UNION {[1..k -> chars] : k \in lo..hi}

\* strings.Split(s, sep) for a separator of one character
RECURSIVE Split(_, _)
Split(s, sep) ==
    IF \A i \in 1..Len(s) : s[i] # sep
    THEN <<s>>
    ELSE LET i == Min({j \in 1..Len(s) : s[j] = sep})
         IN  <<SubSeq(s, 1, i - 1)>> \o Split(SubSeq(s, i + 1, Len(s)), sep)

\* extractVersionFromObjectName: the third component, "" if there is none
extractVersionFromObjectName(objectName) ==
    LET parts == Split(objectName, "/")
    IN  IF Len(parts) >= 3 THEN parts[3] ELSE <<>>

\* positional parsing that takes the components one place too far
extractPackageInfoFromObjectName_Shifted(objectName) ==
    LET parts == Split(objectName, "/")
    IN  IF Len(parts) >= 4 THEN <<parts[3], parts[4]>> ELSE <<<<>>, <<>>>>

\* extractPackageInfoFromObjectName: parts[1] and parts[2] of the key split at
\* "/" (Go indexes from 0), ("", "") if the key has fewer than four components
extractPackageInfoFromObjectName(objectName) ==
    LET parts == Split(objectName, "/")
    IN  IF Len(parts) >= 4 THEN <<parts[2], parts[3]>> ELSE <<<<>>, <<>>>>

\* no call has begun; the key functions are examined on one input
Untouched ==
    /\ packages = <<>>
    /\ versions = <<>>
    /\ downloads = <<>>
    /\ objects = [k \in ObjectKeys |-> NoObject]
    /\ minioClient = "ok"
    /\ proc = [w \in Workers |-> Idle]
    /\ tasks = <<>>
    /\ calls = 0
    /\ history = [served |-> <<>>, lost |-> {}]

InitKeys ==
    /\ Untouched
    /\ \E n \in Strings(KeyChars, 1, MaxNameLen),
          v \in Strings(KeyChars, 0, MaxVersionLen) :
          probe = [fn |-> "buildObjectName", name |-> n, version |-> v,
                   key |-> <<>>, parsed |-> <<>>, parsedVersion |-> <<>>]

\* objectName := c.buildObjectName(packageName, version)
BuildKey ==
    /\ probe.fn = "buildObjectName"
    /\ probe' = [probe EXCEPT !.fn = "extractPackageInfoFromObjectName",
                              !.key = buildObjectName(probe.name, probe.version)]
    /\ UNCHANGED <<packages, versions, downloads, objects, minioClient, proc,
                   tasks, calls, history>>

\* packageName, version := c.extractPackageInfoFromObjectName(object.Key)
ParseKey ==
    /\ probe.fn = "extractPackageInfoFromObjectName"
    /\ probe' = [probe EXCEPT !.fn = "extractVersionFromObjectName",
                              !.parsed = extractPackageInfoFromObjectName(probe.key)]
    /\ UNCHANGED <<packages, versions, downloads, objects, minioClient, proc,
                   tasks, calls, history>>

\* version := c.extractVersionFromObjectName(object.Key)
ParseVersion ==
    /\ probe.fn = "extractVersionFromObjectName"
    /\ probe' = [probe EXCEPT !.fn = "done",
                              !.parsedVersion = extractVersionFromObjectName(probe.key)]
    /\ UNCHANGED <<packages, versions, downloads, objects, minioClient, proc,
                   tasks, calls, history>>

NextKeys ==
    \/ BuildKey
    \/ ParseKey
    \/ ParseVersion

SpecKeys == InitKeys /\ [][NextKeys]_vars

(* ------------------------------------------------------------------ *)
(* Listing and search                                                  *)
(* ------------------------------------------------------------------ *)
MaxRows == 15

MaxPage == 3

DefaultPageSize == 20

MaxPageSize == 100

UpperCase == <<"A", "B", "C", "D", "E", "F", "G", "H", "I", "J", "K", "L", "M",
               "N", "O", "P", "Q", "R", "S", "T", "U", "V", "W", "X", "Y", "Z">>

LowerCase == <<"a", "b", "c", "d", "e", "f", "g", "h", "i", "j", "k", "l", "m",
               "n", "o", "p", "q", "r", "s", "t", "u", "v", "w", "x", "y", "z">>

\* strings.ToLower, and LOWER() of the database, on the characters of the model
ToLower(str) ==
    [i \in 1..Len(str) |->
        IF \E j \in DOMAIN UpperCase : UpperCase[j] = str[i]
        THEN LowerCase[CHOOSE j \in DOMAIN UpperCase : UpperCase[j] = str[i]]
        ELSE str[i]]

\* str LIKE pattern: "%" stands for any sequence of characters, "_" for any
\* one character, every other character for itself
RECURSIVE Like(_, _)
Like(str, pattern) ==
    IF pattern = <<>> THEN str = <<>>
    ELSE IF Head(pattern) = "%"
         THEN \/ Like(str, Tail(pattern))
              \/ str # <<>> /\ Like(Tail(str), pattern)
    ELSE /\ str # <<>>
         /\ Head(pattern) = "_" \/ Head(pattern) = Head(str)
         /\ Like(Tail(str), Tail(pattern))

\* LOWER(column) LIKE "%" + strings.ToLower(term) + "%"
LowerLike(column, term) == Like(ToLower(column), <<"%">> \o ToLower(term) \o <<"%">>)

\* the WHERE conditions SearchPackages adds for req, on row i of packages;
\* Model(&models.Package{}) adds the soft-delete filter
SearchMatches(req, i) ==
    /\ ~packages[i].deleted
    /\ req.query # <<>> =>
          \/ LowerLike(packages[i].name, req.query)
          \/ LowerLike(packages[i].description, req.query)
    /\ req.author # <<>> => LowerLike(packages[i].author, req.author)
    /\ req.keywords # <<>> => LowerLike(packages[i].keywords, req.keywords)
    /\ req.license # <<>> => ToLower(packages[i].license) = ToLower(req.license)
    /\ req.is_private.set => packages[i].is_private = req.is_private.val

\* ORDER BY created_at DESC over the rows ids: the rows in the reverse of the
\* order of their creation, which is the order of their primary keys
RECURSIVE Descending(_)
Descending(ids) ==
    IF ids = {} THEN <<>>
    ELSE LET top == CHOOSE x \in ids : \A y \in ids : y <= x
         IN  <<top>> \o Descending(ids \ {top})

\* LIMIT limit OFFSET offset
LimitOffset(rows, limit, offset) ==
    SubSeq(rows, offset + 1, Min({Len(rows), offset + limit}))

\* the response with the number of pages rounded down
PageOf_RoundDown(ids, page, pageSize) ==
    LET total == Cardinality(ids)
        offset == (page - 1) * pageSize
    IN  [items |-> LimitOffset(Descending(ids), pageSize, offset),
         total |-> total, page |-> page, page_size |-> pageSize,
         total_pages |-> total \div pageSize]

\* the response for the matching rows ids, as both listings compute it
PageOf(ids, page, pageSize) ==
    LET total == Cardinality(ids)
        offset == (page - 1) * pageSize
    IN  [items |-> LimitOffset(Descending(ids), pageSize, offset),
         total |-> total, page |-> page, page_size |-> pageSize,
         total_pages |-> (total + pageSize - 1) \div pageSize]

\* PackageService.SearchPackages when the database answers
ServiceSearchPackages(req) ==
    PageOf({i \in DOMAIN packages : SearchMatches(req, i)}, req.page, req.page_size)

\* PackageService.GetPackageVersions when the database answers and the
\* package pkgID was found
ServiceGetPackageVersions(pkgID, page, pageSize) ==
    PageOf({i \in DOMAIN versions :
               versions[i].package_id = pkgID /\ ~versions[i].deleted},
           page, pageSize)

\* the handlers' defaults for page and page_size
ClampPage(page) == IF page < 1 THEN 1 ELSE page

ClampPageSize(pageSize) ==
    IF pageSize < 1 \/ pageSize > MaxPageSize THEN DefaultPageSize ELSE pageSize

\* package i of the catalogue: names are distinct, the other attributes vary
CatalogueRequest(i) ==
    [name |-> <<LowerCase[i]>>,
     description |-> CASE i % 3 = 1 -> <<>>
                       [] i % 3 = 2 -> <<"A", "b">>
                       [] OTHER -> <<"c", "_">>,
     author |-> IF i % 2 = 0 THEN <<"X", "y">> ELSE <<>>,
     homepage |-> <<>>, repository |-> <<>>,
     license |-> CASE i % 4 = 0 -> <<"M", "I", "T">>
                   [] i % 4 = 2 -> <<"m", "i", "t">>
                   [] i % 4 = 3 -> <<"G", "P", "L">>
                   [] OTHER -> <<>>,
     keywords |-> IF i % 5 = 0 THEN <<"k">> ELSE <<>>,
     is_private |-> (i \div 2) % 2 = 1]

\* version i of the catalogue, of package 1
CatalogueVersion(i) ==
    NewVersionRow(1, <<LowerCase[1]>>, <<LowerCase[i]>>, Len(OtherContent),
                  OtherContent, 1)

\* the query strings of the search requests
SearchRequests ==
    [query : {<<>>, <<"a">>, <<"B">>, <<"_">>},
     author : {<<>>, <<"x">>},
     keywords : {<<>>, <<"K">>},
     license : {<<>>, <<"m", "i", "t">>},
     is_private : {NilBool, BoolPtr(TRUE), BoolPtr(FALSE)},
     page : 0..MaxPage,
     page_size : {0, 1, 4, 10, MaxPageSize + 1}]

\* the registry after count packages were created, with as many versions of the
\* first package, and package gone and version gone deleted (0: none)
InitSearch ==
    /\ \E count \in 0..MaxRows : \E gone \in 0..count :
          /\ packages = [i \in 1..count |->
                            [NewPackageRow(CatalogueRequest(i), 1)
                                EXCEPT !.deleted = (i = gone)]]
          /\ versions = [i \in 1..count |->
                            [CatalogueVersion(i) EXCEPT !.deleted = (i = gone)]]
    /\ downloads = <<>>
    /\ objects = [k \in ObjectKeys |-> NoObject]
    /\ minioClient = "ok"
    /\ proc = [w \in Workers |-> Idle]
    /\ tasks = <<>>
    /\ calls = 0
    /\ history = [served |-> <<>>, lost |-> {}]
    /\ probe = NoProbe

\* GET /packages?query&author&keywords&license&is_private&page&page_size
SearchPackages ==
    /\ probe = NoProbe
    /\ \E raw \in SearchRequests :
          LET req == [raw EXCEPT !.page = ClampPage(@),
                                 !.page_size = ClampPageSize(@)]
          IN  \/ probe' = [fn |-> "SearchPackages", raw |-> raw, req |-> req,
                           err |-> NoErr, resp |-> ServiceSearchPackages(req)]
              \/ \E e \in {"failed to count packages", "failed to search packages"} :
                    probe' = [fn |-> "SearchPackages", raw |-> raw, req |-> req,
                              err |-> e, resp |-> PageOf({}, 1, 1)]
    /\ UNCHANGED <<packages, versions, downloads, objects, minioClient, proc,
                   tasks, calls, history>>

\* GET /packages/:package/versions?page&page_size
GetPackageVersions ==
    /\ probe = NoProbe
    /\ \E name \in {<<LowerCase[1]>>, <<LowerCase[2]>>, <<"z", "z">>},
          page \in 0..MaxPage, pageSize \in {0, 1, 4, 10, MaxPageSize + 1} :
          LET pkgID == FirstPackageByName(name)
              raw == [name |-> name, page |-> page, page_size |-> pageSize]
              req == [name |-> name, page |-> ClampPage(page),
                      page_size |-> ClampPageSize(pageSize)]
          IN  IF pkgID = 0
              THEN probe' = [fn |-> "GetPackageVersions", raw |-> raw, req |-> req,
                             err |-> "package not found", resp |-> PageOf({}, 1, 1)]
              ELSE \/ probe' = [fn |-> "GetPackageVersions", raw |-> raw, req |-> req,
                                err |-> NoErr,
                                resp |-> ServiceGetPackageVersions(pkgID, req.page,
                                                                   req.page_size)]
                   \/ \E e \in {"failed to count versions", "failed to get versions"} :
                         probe' = [fn |-> "GetPackageVersions", raw |-> raw,
                                   req |-> req, err |-> e, resp |-> PageOf({}, 1, 1)]
    /\ UNCHANGED <<packages, versions, downloads, objects, minioClient, proc,
                   tasks, calls, history>>

NextSearch ==
    \/ SearchPackages
    \/ GetPackageVersions

SpecSearch == InitSearch /\ [][NextSearch]_vars

(* ------------------------------------------------------------------ *)
(* Routes: from the request to the caller the service is given         *)
(* ------------------------------------------------------------------ *)
\* the package routes that change the registry (group /packages/update)
MutatingRoutes ==
    {"CreatePackage", "UpdatePackage", "DeletePackage", "UploadPackageVersion",
     "DeletePackageVersion"}

\* the download routes (group /packages)
DownloadRoutes == {"DownloadPackageVersion", "GetDownloadURL"}

\* the Authorization header: absent, a token parseToken rejects, or a token
\* signed for a user
Tokens ==
    {[kind |-> "none", user_id |-> NoUser], [kind |-> "invalid", user_id |-> NoUser]}
        \cup {[kind |-> "valid", user_id |-> u] : u \in Users}

\* the gin context of a request before any middleware has run
NewContext == [user_id |-> NoUser, aborted |-> FALSE, status |-> 0]

\* middleware.JWTAuth
JWTAuth(c, token) ==
    IF token.kind = "none" THEN [c EXCEPT !.aborted = TRUE, !.status = 401]
    ELSE IF token.kind = "invalid" THEN [c EXCEPT !.aborted = TRUE, !.status = 401]
    ELSE [c EXCEPT !.user_id = token.user_id]

\* middleware.OptionalJWTAuth
OptionalJWTAuth(c, token) ==
    IF token.kind = "valid" THEN [c EXCEPT !.user_id = token.user_id] ELSE c

\* the authentication middleware setupRoutes attaches to the group of a route:
\* the Use(...) lines of both groups are comments, so none
GroupMiddleware(route) == <<>>

\* the handlers of the chain run in order until one aborts
RECURSIVE RunChain(_, _, _)
RunChain(chain, c, token) ==
    IF chain = <<>> \/ c.aborted THEN c
    ELSE RunChain(Tail(chain),
                  IF Head(chain) = "JWTAuth" THEN JWTAuth(c, token)
                  ELSE OptionalJWTAuth(c, token),
                  token)

\* a registry holding package p of user 1, public or private, with version 1
InitRoutes ==
    /\ \E isPrivate \in BOOLEAN, content \in Contents :
          /\ packages = <<NewPackageRow(CreateRequest(<<"p">>, isPrivate), 1)>>
          /\ versions = <<NewVersionRow(1, <<"p">>, <<"1">>, Len(content), content, 1)>>
          /\ objects = [k \in ObjectKeys |-> content]
    /\ downloads = <<>>
    /\ minioClient \in {"ok", "nil"}
    /\ proc = [w \in Workers |-> Idle]
    /\ tasks = <<>>
    /\ calls = 0
    /\ history = [served |-> <<>>, lost |-> {}]
    /\ probe = NoProbe

\* a request arrives at a package route and passes the middleware of its group
RouteRequest ==
    /\ probe = NoProbe
    /\ \E route \in MutatingRoutes \cup DownloadRoutes, token \in Tokens,
          bodyOK \in BOOLEAN :
          /\ bodyOK \/ route \in {"CreatePackage", "UpdatePackage"}
          /\ probe' = [fn |-> route, token |-> token, bodyOK |-> bodyOK,
                       c |-> RunChain(GroupMiddleware(route), NewContext, token),
                       stage |-> "handler", status |-> 0, caller |-> NoUser]
    /\ UNCHANGED <<packages, versions, downloads, objects, minioClient, proc,
                   tasks, calls, history>>

\* the handlers of the mutating routes up to their call of the service: the
\* body is bound (create, update), then the caller is read from the context
HandleMutating ==
    /\ probe # NoProbe
    /\ probe.stage = "handler"
    /\ probe.fn \in MutatingRoutes
    /\ probe' =
          IF probe.c.aborted
          THEN [probe EXCEPT !.stage = "done", !.status = probe.c.status]
          ELSE IF ~probe.bodyOK
          THEN [probe EXCEPT !.stage = "done", !.status = 400]
          ELSE IF probe.c.user_id = NoUser
          THEN [probe EXCEPT !.stage = "done", !.status = 401]
          ELSE [probe EXCEPT !.stage = "service", !.caller = probe.c.user_id]
    /\ UNCHANGED <<packages, versions, downloads, objects, minioClient, proc,
                   tasks, calls, history>>

\* the handler of the download route: the caller is the user of the context
\* if there is one; the service checks and then reads the blob
HandleDownload ==
    /\ probe # NoProbe
    /\ probe.stage = "handler"
    /\ probe.fn = "DownloadPackageVersion"
    /\ IF probe.c.aborted
       THEN /\ probe' = [probe EXCEPT !.stage = "done", !.status = probe.c.status]
            /\ UNCHANGED proc
       ELSE LET e == DownloadPackageVersionCheck(<<"p">>, <<"1">>, probe.c.user_id)
                r == New("DownloadPackageVersion", <<"p">>, <<"1">>, probe.c.user_id)
            IN  IF e # NoErr
                THEN /\ probe' = [probe EXCEPT
                            !.stage = "done", !.caller = probe.c.user_id,
                            !.status = HandlerStatus("DownloadPackageVersion", e)]
                     /\ UNCHANGED proc
                ELSE /\ probe' = [probe EXCEPT !.stage = "service",
                                               !.caller = probe.c.user_id]
                     /\ \E w \in Workers :
                           /\ Ready(w)
                           /\ Goto(w, [r EXCEPT !.verID =
                                          FirstVersionByName(<<"p">>, <<"1">>)],
                                   "dl_get")
    /\ UNCHANGED <<packages, versions, downloads, objects, minioClient, tasks,
                   calls, history>>

\* the handler of the download-url route
HandleDownloadURL ==
    /\ probe # NoProbe
    /\ probe.stage = "handler"
    /\ probe.fn = "GetDownloadURL"
    /\ probe' =
          IF probe.c.aborted
          THEN [probe EXCEPT !.stage = "done", !.status = probe.c.status]
          ELSE LET e == GetDownloadURLCheck(<<"p">>, <<"1">>, probe.c.user_id)
               IN  [probe EXCEPT
                       !.stage = "done", !.caller = probe.c.user_id,
                       !.status = IF e # NoErr THEN HandlerStatus("GetDownloadURL", e)
                                  ELSE IF minioClient = "nil"
                                       THEN HandlerStatus("GetDownloadURL", Panic)
                                  ELSE HandlerStatus("GetDownloadURL", NoErr)]
    /\ UNCHANGED <<packages, versions, downloads, objects, minioClient, proc,
                   tasks, calls, history>>

NextRoutes ==
    \/ RouteRequest
    \/ HandleMutating
    \/ HandleDownload
    \/ HandleDownloadURL
    \/ \E w \in Workers : DownloadPackageVersionGet(w)
    \/ \E i \in DOMAIN tasks : AccountingCreate(i)
    \/ \E i \in DOMAIN tasks : AccountingUpdate(i)

SpecRoutes == InitRoutes /\ [][NextRoutes]_vars

(* ------------------------------------------------------------------ *)
(* Properties                                                          *)
(* ------------------------------------------------------------------ *)
\* worker w returns from its call in this step
Returns(w) == proc[w].pc # "done" /\ proc'[w].pc = "done"

\* the status the handler of w's call answers after this step
StatusAfter(w) == HandlerStatus(proc'[w].op, proc'[w].err)

\* the object stored for version row i
ObjectOfRow(i) ==
    objects[buildObjectName(packages[versions[i].package_id].name,
                            versions[i].version)]

VisibleVersions == {i \in DOMAIN versions : ~versions[i].deleted}

VisiblePackages == {i \in DOMAIN packages : ~packages[i].deleted}

\* C1: in every reachable state every version row visible to queries has its
\* blob present in the object store at the key of that version.
C1_VisibleVersionHasBlob ==
    \A i \in VisibleVersions : ObjectOfRow(i) # NoObject

\* C2: of two concurrent uploads of the same (package, version) exactly one
\* creates the row: an upload that passed the existence check and finds, when
\* it inserts, the row another upload created meanwhile is answered Conflict
\* (409), and two visible rows for one pair never exist.
C2_LostUploadRaceIsConflict ==
    [][\A w \in Workers :
          /\ (/\ proc[w].pc = "uv_insert"
              /\ Returns(w)
              /\ FirstVersionOfPackage(proc[w].pkgID, proc[w].version) # 0)
                => StatusAfter(w) = 409
          /\ \A i, j \in DOMAIN versions' :
                (/\ ~versions'[i].deleted /\ ~versions'[j].deleted
                 /\ versions'[i].package_id = versions'[j].package_id
                 /\ versions'[i].version = versions'[j].version) => i = j]_vars

\* C3: an upload that the owner of a visible package starts passes the
\* package lookup and the ownership check, and when its existence check then
\* finds a visible row for the (package, version) pair, the call ends with
\* Conflict (409) and leaves the version rows (so the recorded size and hash)
\* and the object store as they were.
C3_ReuploadIsConflict ==
    [][\A w \in Workers :
          /\ (/\ proc[w].pc \in {"idle", "done"}
              /\ proc'[w] # proc[w]
              /\ proc'[w].op = "UploadPackageVersion"
              /\ FirstPackageByName(proc'[w].name) # 0
              /\ packages[FirstPackageByName(proc'[w].name)].owner_id = proc'[w].user)
                => proc'[w].pc = "uv_check"
          /\ (/\ proc[w].pc = "uv_check"
              /\ proc'[w] # proc[w]
              /\ FirstVersionOfPackage(proc[w].pkgID, proc[w].version) # 0)
                => /\ proc'[w].pc = "done"
                   /\ StatusAfter(w) = 409
                   /\ versions' = versions
                   /\ objects' = objects]_vars

\* C3 witness: an upload has been answered Conflict while the row of the pair
\* is visible and its blob hashes to the recorded hash.
C3_Witness ==
    \E w \in Workers :
        /\ proc[w].pc = "done"
        /\ proc[w].op = "UploadPackageVersion"
        /\ proc[w].err = "version already exists"
        /\ LET i == FirstVersionOfPackage(proc[w].pkgID, proc[w].version)
           IN  /\ i # 0
               /\ versions[i].file_hash = Sha256Hex(ObjectOfRow(i))

\* C4: when CreatePackage is called with a name that a visible package row
\* has, whoever calls, the call ends with Conflict (409) and the packages
\* table is unchanged.
C4_DuplicateNameIsConflict ==
    [][\A w \in Workers :
          (/\ proc[w].pc \in {"idle", "done"}
           /\ proc'[w] # proc[w]
           /\ proc'[w].op = "CreatePackage"
           /\ \E i \in VisiblePackages : packages[i].name = proc'[w].name)
             => /\ proc'[w].pc = "done"
                /\ StatusAfter(w) = 409
                /\ packages' = packages]_vars

\* C4 witness: a CreatePackage by a user who is not the owner of the visible
\* package of that name has been answered "already exists".
C4_Witness ==
    \E w \in Workers :
        /\ proc[w].pc = "done"
        /\ proc[w].op = "CreatePackage"
        /\ proc[w].err = "package name already exists"
        /\ \E i \in VisiblePackages :
              packages[i].name = proc[w].name /\ packages[i].owner_id # proc[w].user

\* C5: of concurrent CreatePackage calls for one unregistered name exactly one
\* creates the row: a call that passed the existence check and finds, when it
\* inserts, the visible row another call created meanwhile is answered
\* Conflict (409), and two visible packages of one name never exist.
C5_LostCreateRaceIsConflict ==
    [][\A w \in Workers :
          /\ (/\ proc[w].pc = "cp_insert"
              /\ Returns(w)
              /\ FirstPackageByName(proc[w].name) # 0)
                => StatusAfter(w) = 409
          /\ \A i, j \in DOMAIN packages' :
                (/\ ~packages'[i].deleted /\ ~packages'[j].deleted
                 /\ packages'[i].name = packages'[j].name) => i = j]_vars

\* C9: in DeletePackage a blob delete is attempted at most once per version
\* and only after the metadata transaction has committed.
C9_BlobDeleteAfterCommit ==
    \A w \in Workers :
        proc[w].op = "DeletePackage" =>
            /\ (proc[w].attempted # <<>> => proc[w].committed)
            /\ \A i, j \in DOMAIN proc[w].attempted :
                  proc[w].attempted[i] = proc[w].attempted[j] => i = j

\* C6: a download of an existing version of a private package succeeds for
\* the owner of the package and is answered Forbidden (403) for every other
\* caller and for a caller without identity; a download of an existing
\* version of a public package succeeds for every caller.
C6_DownloadAccessControl ==
    [][\A w \in Workers :
          (Returns(w) /\ proc'[w].op = "DownloadPackageVersion") =>
              LET i == FirstVersionByName(proc'[w].name, proc'[w].version)
              IN  i # 0 =>
                    LET pkg == packages[versions[i].package_id]
                    IN  IF pkg.is_private /\ proc'[w].user # pkg.owner_id
                        THEN StatusAfter(w) = 403
                        ELSE proc'[w].err = NoErr]_vars

C8_RejectedCallsChangeNothing ==
    [][\A w \in Workers :
          (/\ proc[w].pc \in {"idle", "done"}
           /\ proc'[w] # proc[w]
           /\ proc'[w].op \in {"UpdatePackage", "DeletePackage",
                               "UploadPackageVersion", "DeletePackageVersion"}) =>
              LET r == proc'[w]
                  id == FirstPackageByName(r.name)
                  absent == \/ id = 0
                            \/ /\ r.op = "DeletePackageVersion"
                               /\ FirstVersionOfPackage(id, r.version) = 0
                  rejected == /\ r.pc = "done"
                              /\ packages' = packages /\ versions' = versions
                              /\ downloads' = downloads /\ objects' = objects
              IN  /\ absent => (rejected /\ StatusAfter(w) = 404)
                  /\ (~absent /\ packages[id].owner_id # r.user)
                        => (rejected /\ StatusAfter(w) = 403)]_vars

\* C10: once DeletePackage has returned success to the owner, the package
\* row, the version rows of the package and the download rows of those
\* versions are gone for every later query: GetPackage and the lookup of
\* DownloadPackageVersion answer "not found", no visible version row belongs
\* to the package and no download row references one of its versions.
C10_DeletedPackageIsGone ==
    \A w \in Workers :
        (/\ proc[w].pc = "done"
         /\ proc[w].op = "DeletePackage"
         /\ proc[w].err = NoErr) =>
            /\ GetPackage(proc[w].name) = "package not found"
            /\ \A i \in VisibleVersions : versions[i].package_id # proc[w].pkgID
            /\ \A k \in DOMAIN downloads :
                  versions[downloads[k].package_version_id].package_id # proc[w].pkgID
            /\ \A version \in VersionLabels, userID \in Callers :
                  DownloadPackageVersionCheck(proc[w].name, version, userID)
                      = "package version not found"

\* C11: when the insert of the version row fails after the blob was written,
\* the call issues the delete of the object at the key it wrote before it
\* returns, returns an error, and the version rows are as they were.
C11_FailedInsertIsCompensated ==
    [][\A w \in Workers :
          (/\ proc[w].pc = "uv_insert"
           /\ Returns(w)
           /\ proc'[w].err # NoErr) =>
              /\ versions' = versions
              /\ StatusAfter(w) # 200
              /\ proc'[w].attempted = <<proc[w].version>>
              /\ objects' \in {objects, RemoveObject(proc[w].name, proc[w].version)}]_vars

\* C11 witness: an upload has returned the insert failure after deleting the
\* object it had written.
C11_Witness ==
    \E w \in Workers :
        /\ proc[w].pc = "done"
        /\ proc[w].op = "UploadPackageVersion"
        /\ proc[w].err = "failed to create version record"
        /\ proc[w].attempted = <<proc[w].version>>
        /\ objects[buildObjectName(proc[w].name, proc[w].version)] = NoObject

\* C12: a version row is inserted only by an upload that is past its put: the
\* call reaches the insert only from the StatObject of a present object,
\* which it reaches only from a PutObject that stored its bytes; and an upload
\* that returns from the put or the stat returns an error and leaves
\* packages, versions and download rows as they were.
C12_InsertOnlyAfterPut ==
    [][/\ Len(versions') > Len(versions) =>
            \E w \in Workers :
                /\ proc[w].pc = "uv_insert"
                /\ proc'[w].verID = Len(versions')
                /\ Len(versions') = Len(versions) + 1
       /\ \A w \in Workers :
            /\ (proc'[w].pc = "uv_insert" /\ proc[w].pc # "uv_insert") =>
                  /\ proc[w].pc = "uv_stat"
                  /\ objects[buildObjectName(proc[w].name, proc[w].version)] # NoObject
            /\ (proc'[w].pc = "uv_stat" /\ proc[w].pc # "uv_stat") =>
                  /\ proc[w].pc = "uv_put"
                  /\ objects'[buildObjectName(proc[w].name, proc[w].version)]
                        = proc[w].content
            /\ (proc[w].pc \in {"uv_put", "uv_stat"} /\ Returns(w)) =>
                  /\ proc'[w].err # NoErr
                  /\ packages' = packages
                  /\ versions' = versions
                  /\ downloads' = downloads]_vars

\* C12 witness: an upload has returned the failure of its put while no version
\* row exists.
C12_Witness ==
    \E w \in Workers :
        /\ proc[w].pc = "done"
        /\ proc[w].op = "UploadPackageVersion"
        /\ proc[w].err = "failed to upload package to storage"
        /\ versions = <<>>
        /\ FirstPackageByName(proc[w].name) # 0

\* C13: from its creation to its deletion a version row keeps its recorded
\* size and hash (and its package, label, key and uploader; only the download
\* counter and the deletion mark change), and in every state the object
\* stored at the key of a visible row, when there is one to read, is the
\* content its hash was recorded for.
C13_ArtifactIsImmutable ==
    /\ [](\A i \in VisibleVersions :
            ObjectOfRow(i) # NoObject =>
                versions[i].file_hash = Sha256Hex(ObjectOfRow(i)))
    /\ [][\A i \in DOMAIN versions :
            /\ i \in DOMAIN versions'
            /\ [versions'[i] EXCEPT !.download_count = 0, !.deleted = FALSE]
                 = [versions[i] EXCEPT !.download_count = 0, !.deleted = FALSE]]_vars

\* C14: with the calls served one at a time, an upload that succeeds leaves a
\* visible row recording the length and the SHA-256 of the bytes it was given
\* and the object at its key holding exactly those bytes, so that a permitted
\* caller's download finds the version; a download of a present object on a
\* usable client succeeds; and a download that succeeds carries exactly the
\* stored bytes, whose length is the recorded size and whose SHA-256 is the
\* recorded hash.
C14_RoundTrip ==
    [][\A w \in Workers :
          LET key == buildObjectName(proc[w].name, proc[w].version)
          IN  /\ (/\ proc[w].pc = "uv_insert"
                  /\ Returns(w)
                  /\ proc'[w].err = NoErr) =>
                     LET i == proc'[w].verID
                     IN  /\ i \in DOMAIN versions'
                         /\ ~versions'[i].deleted
                         /\ versions'[i].file_size = Len(proc[w].content)
                         /\ versions'[i].file_hash = Sha256Hex(proc[w].content)
                         /\ objects'[key] = proc[w].content
                         /\ packages[versions'[i].package_id].name = proc[w].name
                         /\ ~packages[versions'[i].package_id].deleted
              /\ (/\ proc[w].pc = "dl_get"
                  /\ Returns(w)
                  /\ minioClient = "ok"
                  /\ objects[key] # NoObject) => proc'[w].err = NoErr
              /\ (/\ proc[w].pc = "dl_get"
                  /\ Returns(w)
                  /\ proc'[w].err = NoErr) =>
                     /\ proc'[w].body = objects[key]
                     /\ Len(proc'[w].body) = versions[proc[w].verID].file_size
                     /\ Sha256Hex(proc'[w].body) = versions[proc[w].verID].file_hash]_vars

\* C14 witness: a download has returned the bytes of the visible version,
\* whose length and hash are the recorded ones.
C14_Witness ==
    \E w \in Workers :
        /\ proc[w].pc = "done"
        /\ proc[w].op = "DownloadPackageVersion"
        /\ proc[w].err = NoErr
        /\ proc[w].verID \in VisibleVersions
        /\ proc[w].body \in Contents
        /\ Len(proc[w].body) = versions[proc[w].verID].file_size
        /\ Sha256Hex(proc[w].body) = versions[proc[w].verID].file_hash

\* the number of downloads of version row i that were served
Served(i) == Cardinality({k \in DOMAIN history.served : history.served[k] = i})

\* the number of download rows that reference version row i
DownloadRows(i) ==
    Cardinality({k \in DOMAIN downloads : downloads[k].package_version_id = i})

\* C15: for every version row that is not deleted, when no accounting task of
\* it is in flight and none of its accounting steps failed or was dropped,
\* the download counter and the number of download rows referencing the row
\* both equal the number of downloads served for it; and no step ever lowers a
\* download counter.
C15_DownloadsAreCounted ==
    /\ [](\A i \in VisibleVersions :
            (/\ \A k \in DOMAIN tasks : tasks[k].verID # i
             /\ i \notin history.lost) =>
                /\ versions[i].download_count = Served(i)
                /\ DownloadRows(i) = Served(i))
    /\ [][\A i \in DOMAIN versions :
            versions'[i].download_count >= versions[i].download_count]_vars

\* C15 witness: two downloads of a visible version were served, their
\* accounting is complete and nothing of it was lost.
C15_Witness ==
    \E i \in VisibleVersions :
        /\ tasks = <<>>
        /\ i \notin history.lost
        /\ Served(i) > 1
        /\ versions[i].download_count = Served(i)
        /\ DownloadRows(i) = Served(i)

\* C16: a GetDownloadURL call, whether it succeeds or fails, leaves every
\* version row (so every download counter) and the download rows as they were
\* and starts no accounting task.
C16_URLHasNoAccounting ==
    [][\A w \in Workers :
          (/\ proc'[w] # proc[w]
           /\ proc'[w].op = "GetDownloadURL"
           /\ proc'[w].pc = "done") =>
              /\ versions' = versions
              /\ downloads' = downloads
              /\ tasks' = tasks]_vars

\* C16 witness: a GetDownloadURL call has succeeded for a visible version
\* that has no download row, a zero counter and no task.
C16_Witness ==
    \E w \in Workers :
        /\ proc[w].pc = "done"
        /\ proc[w].op = "GetDownloadURL"
        /\ proc[w].err = NoErr
        /\ proc[w].verID \in VisibleVersions
        /\ versions[proc[w].verID].download_count = 0
        /\ downloads = <<>>
        /\ tasks = <<>>

\* the fields of a package that an update request can name
UpdatableFields ==
    {"description", "author", "homepage", "repository", "license", "keywords",
     "is_private"}

\* the stored form of the value a body gives for a field
StoredValue(field, val) ==
    IF field = "keywords" /\ val # <<>> THEN JSONMarshal(val) ELSE val

\* worker w completes a successful UpdatePackage in this step
UpdateSucceeds(w) ==
    /\ proc[w].pc = "up_apply"
    /\ Returns(w)
    /\ proc'[w].err = NoErr

\* C17: a successful UpdatePackage leaves every field that its request body
\* does not name as it was stored, never changes the name, the owner or the
\* deletion mark of the package, and changes no other row.
C17_UpdateChangesOnlyGivenFields ==
    [][\A w \in Workers :
          UpdateSucceeds(w) =>
              LET body == UpdateRequests[proc[w].req]
                  id == proc[w].pkgID
              IN  /\ \A f \in UpdatableFields :
                        ~body[f].set => packages'[id][f] = packages[id][f]
                  /\ packages'[id].name = packages[id].name
                  /\ packages'[id].owner_id = packages[id].owner_id
                  /\ packages'[id].deleted = packages[id].deleted
                  /\ \A j \in DOMAIN packages : j # id => packages'[j] = packages[j]
                  /\ DOMAIN packages' = DOMAIN packages
                  /\ versions' = versions
                  /\ downloads' = downloads]_vars

\* C17 witness: an update has succeeded on a private package whose stored
\* description and details were set by two different requests.
C17_Witness ==
    \E w \in Workers :
        /\ proc[w].pc = "done"
        /\ proc[w].op = "UpdatePackage"
        /\ proc[w].err = NoErr
        /\ packages[proc[w].pkgID].description = "d"
        /\ packages[proc[w].pkgID].author = "a"
        /\ packages[proc[w].pkgID].keywords = JSONMarshal(<<"k">>)
        /\ packages[proc[w].pkgID].is_private

\* C18: a successful UpdatePackage stores every value that its request body
\* names, the empty string, the empty list and false included, and leaves
\* every field the body does not name as it was stored.
C18_ExplicitEmptyIsStored ==
    [][\A w \in Workers :
          UpdateSucceeds(w) =>
              LET body == UpdateRequests[proc[w].req]
                  id == proc[w].pkgID
              IN  \A f \in UpdatableFields :
                      packages'[id][f] =
                          IF body[f].set THEN StoredValue(f, body[f].val)
                          ELSE packages[id][f]]_vars

\* C19: the transaction step of DeletePackageVersion either fails, returning
\* an error with version rows, download rows and the bucket as they were, or
\* commits, marking the version row deleted and removing exactly the download
\* rows that reference it, with the bucket as it was; the blob delete is made
\* only after the commit, changes no row, and the call then returns success
\* whether the object was removed or not.
C19_DeleteVersionOrder ==
    [][\A w \in Workers :
          LET r == proc[w]
              keep(d) == d.package_version_id # r.verID
          IN  /\ (r.pc = "dv_tx" /\ proc'[w] # r) =>
                    /\ objects' = objects
                    /\ proc'[w].attempted = <<>>
                    /\ \/ /\ proc'[w].pc = "done"
                          /\ proc'[w].err # NoErr
                          /\ ~proc'[w].committed
                          /\ versions' = versions
                          /\ downloads' = downloads
                       \/ /\ proc'[w].pc = "dv_blob"
                          /\ proc'[w].committed
                          /\ versions' = [versions EXCEPT ![r.verID].deleted = TRUE]
                          /\ downloads' = SelectSeq(downloads, keep)
              /\ (r.pc = "dv_blob" /\ proc'[w] # r) =>
                    /\ r.committed
                    /\ versions[r.verID].deleted
                    /\ proc'[w].pc = "done"
                    /\ proc'[w].err = NoErr
                    /\ versions' = versions
                    /\ downloads' = downloads
                    /\ objects' \in {objects, RemoveObject(r.name, r.version)}
              /\ (/\ proc'[w].op = "DeletePackageVersion"
                  /\ proc'[w].attempted # <<>>
                  /\ proc'[w].attempted # r.attempted) =>
                    r.pc = "dv_blob"]_vars

\* C19 witness: a DeletePackageVersion has returned success after its commit
\* although the blob delete it attempted left the object in the bucket.
C19_Witness ==
    \E w \in Workers :
        /\ proc[w].pc = "done"
        /\ proc[w].op = "DeletePackageVersion"
        /\ proc[w].err = NoErr
        /\ proc[w].committed
        /\ proc[w].attempted = <<proc[w].version>>
        /\ versions[proc[w].verID].deleted
        /\ objects[buildObjectName(proc[w].name, proc[w].version)] # NoObject

\* C20: in every state in which no accounting task is in flight, no download
\* row references a version row that has been deleted.
C20_NoDanglingDownloadRows ==
    tasks = <<>> =>
        \A k \in DOMAIN downloads :
            ~versions[downloads[k].package_version_id].deleted

\* C24: the storage key recorded in every version row is the object key under
\* which the client stores the blob of that version,
\* packages/<name>/<version>/<name>-<version>.pkg with "/" replaced by "_".
C24_RecordedKeyIsObjectKey ==
    \A i \in DOMAIN versions :
        versions[i].minio_path =
            buildObjectName(packages[versions[i].package_id].name,
                            versions[i].version)

\* C26: every visible version row belongs to a package row that is visible.
C26_VisibleVersionHasVisiblePackage ==
    \A i \in VisibleVersions : ~packages[versions[i].package_id].deleted

\* C27: a DeletePackage call that returns success has committed its
\* transaction and the package is deleted; a call that returns without having
\* committed returns an error and leaves packages and versions as they were.
C27_SuccessMeansCommitted ==
    [][\A w \in Workers :
          (Returns(w) /\ proc'[w].op = "DeletePackage") =>
              /\ StatusAfter(w) = 200 =>
                    /\ proc'[w].committed
                    /\ packages'[proc'[w].pkgID].deleted
              /\ ~proc'[w].committed =>
                    /\ proc'[w].err # NoErr
                    /\ StatusAfter(w) # 200
                    /\ packages' = packages
                    /\ versions' = versions]_vars

\* C28: a CreatePackage whose name no visible package has, at the moment of
\* its insert, succeeds and the new package has no version; and an upload
\* that has stored its blob while its package has no visible version of its
\* label is not refused by the unique index.
C28_DeletedNameAndLabelAreFree ==
    /\ [][\A w \in Workers :
            (/\ proc[w].pc = "cp_insert"
             /\ Returns(w)
             /\ \A i \in VisiblePackages : packages[i].name # proc[w].name) =>
                /\ proc'[w].err = NoErr
                /\ \A j \in DOMAIN versions' :
                      versions'[j].package_id # proc'[w].pkgID]_vars
    /\ [](\A w \in Workers :
            (/\ proc[w].pc = "uv_insert"
             /\ FirstVersionOfPackage(proc[w].pkgID, proc[w].version) = 0) =>
                ~VersionLabelTaken(proc[w].version))

\* C29: in every state in which no accounting task is in flight, the download
\* counter of every visible version equals the number of download rows that
\* reference it.
C29_CounterEqualsRows ==
    tasks = <<>> =>
        \A i \in VisibleVersions : versions[i].download_count = DownloadRows(i)

\* C23: a version label is unique within its package only: the unique index
\* refuses the insert of a version row only if a row of the same package
\* already carries the label.
C23_LabelUniquePerPackage ==
    \A w \in Workers :
        (proc[w].pc = "uv_insert" /\ VersionLabelTaken(proc[w].version)) =>
            \E i \in DOMAIN versions :
                /\ versions[i].package_id = proc[w].pkgID
                /\ versions[i].version = proc[w].version

\* C25: the key built for a non-empty name n and a version v is
\* packages/S(n)/S(v)/S(n)-S(v).pkg, S replacing each "/" by "_"; positional
\* parsing of the key returns (S(n), S(v)), which is (n, v) when neither n nor
\* v contains "/".
C25_KeyRoundTrip ==
    LET sn == [i \in 1..Len(probe.name) |->
                  IF probe.name[i] = "/" THEN "_" ELSE probe.name[i]]
        sv == [i \in 1..Len(probe.version) |->
                  IF probe.version[i] = "/" THEN "_" ELSE probe.version[i]]
        plain(str) == \A i \in 1..Len(str) : str[i] # "/"
    IN  /\ probe.fn \in {"extractPackageInfoFromObjectName",
                         "extractVersionFromObjectName", "done"} =>
              probe.key = <<"p", "a", "c", "k", "a", "g", "e", "s", "/">> \o sn
                            \o <<"/">> \o sv \o <<"/">> \o sn \o <<"-">> \o sv
                            \o <<".", "p", "k", "g">>
        /\ probe.fn \in {"extractVersionFromObjectName", "done"} =>
              /\ probe.parsed = <<sn, sv>>
              /\ (plain(probe.name) /\ plain(probe.version)) =>
                    probe.parsed = <<probe.name, probe.version>>

\* a key of a name and a version that both contain "/" has been parsed
C25_Witness ==
    /\ probe.fn = "done"
    /\ \E i \in 1..Len(probe.name) : probe.name[i] = "/"
    /\ \E i \in 1..Len(probe.version) : probe.version[i] = "/"
    /\ probe.parsed # <<probe.name, probe.version>>
    /\ Len(probe.parsed[1]) = Len(probe.name)

\* C21: a listing that succeeds for page p >= 1, page size s >= 1 and T
\* matching rows returns min(s, max(0, T - (p-1)*s)) items, all of them
\* distinct matching rows, total = T and total_pages = ceil(T / s).
C21_Pagination ==
    (probe.fn \in {"SearchPackages", "GetPackageVersions"} /\ probe.err = NoErr) =>
        LET p == probe.req.page
            s == probe.req.page_size
            matching ==
                IF probe.fn = "SearchPackages"
                THEN {i \in DOMAIN packages : SearchMatches(probe.req, i)}
                ELSE {i \in DOMAIN versions :
                         /\ ~versions[i].deleted
                         /\ versions[i].package_id =
                                FirstPackageByName(probe.req.name)}
            T == Cardinality(matching)
            rest == IF T - (p - 1) * s > 0 THEN T - (p - 1) * s ELSE 0
            items == probe.resp.items
        IN  /\ p >= 1 /\ s >= 1
            /\ Len(items) = (IF s < rest THEN s ELSE rest)
            /\ \A k \in DOMAIN items : items[k] \in matching
            /\ \A k, l \in DOMAIN items : items[k] = items[l] => k = l
            /\ probe.resp.total = T
            /\ probe.resp.total_pages * s >= T
            /\ (probe.resp.total_pages - 1) * s < T \/ probe.resp.total_pages = 0

\* page 2 of size 10 over 15 matching packages: 5 items, total 15, 2 pages
C21_Witness ==
    /\ probe.fn = "SearchPackages"
    /\ probe.err = NoErr
    /\ probe.req.page = 2 /\ probe.req.page_size = 10
    /\ Cardinality({i \in DOMAIN packages : SearchMatches(probe.req, i)}) = 15
    /\ Len(probe.resp.items) = 5
    /\ probe.resp.total = 15
    /\ probe.resp.total_pages = 2

\* C22: a search that succeeds counts, and returns items among, exactly the
\* non-deleted packages that satisfy every filter provided: the query is a
\* case-insensitive substring of the name or of the description, the author
\* filter a case-insensitive substring of the author, the keywords filter a
\* substring of the keywords, the license filter equal to the license, the
\* visibility filter equal to the flag; a first page that is large enough
\* holds all of them.
C22_SearchReturnsExactlyTheMatches ==
    (probe.fn = "SearchPackages" /\ probe.err = NoErr) =>
        LET lower(str) ==
                [i \in 1..Len(str) |->
                    IF \E j \in DOMAIN UpperCase : UpperCase[j] = str[i]
                    THEN LowerCase[CHOOSE j \in DOMAIN UpperCase : UpperCase[j] = str[i]]
                    ELSE str[i]]
            within(sub, str) ==
                \E k \in 0..(Len(str) - Len(sub)) :
                    \A i \in 1..Len(sub) : lower(str)[k + i] = lower(sub)[i]
            req == probe.req
            expected ==
                {i \in DOMAIN packages :
                    /\ ~packages[i].deleted
                    /\ req.query # <<>> =>
                          \/ within(req.query, packages[i].name)
                          \/ within(req.query, packages[i].description)
                    /\ req.author # <<>> => within(req.author, packages[i].author)
                    /\ req.keywords # <<>> =>
                          within(req.keywords, packages[i].keywords)
                    /\ req.license # <<>> => packages[i].license = req.license
                    /\ req.is_private.set =>
                          packages[i].is_private = req.is_private.val}
            returned == {probe.resp.items[k] : k \in DOMAIN probe.resp.items}
        IN  /\ probe.resp.total = Cardinality(expected)
            /\ returned \subseteq expected
            /\ (req.page = 1 /\ req.page_size >= Cardinality(expected)) =>
                  returned = expected

\* C30: through the routes, a well-formed mutating request with a valid token
\* reaches the service with the user of the token as caller; a download of a
\* version of a private package with the valid token of its owner is not
\* refused; a well-formed mutating request without a valid token is answered
\* 401; and a request answered 401 changes no row and no object.
C30_RoutesCarryIdentity ==
    /\ [](probe.fn \in MutatingRoutes \cup DownloadRoutes =>
            /\ (/\ probe.fn \in MutatingRoutes
                /\ probe.stage # "handler"
                /\ probe.bodyOK
                /\ probe.token.kind = "valid") =>
                  (probe.stage = "service" /\ probe.caller = probe.token.user_id)
            /\ (/\ probe.fn = "DownloadPackageVersion"
                /\ probe.stage # "handler"
                /\ probe.token.kind = "valid"
                /\ probe.token.user_id = packages[1].owner_id) =>
                  (probe.stage = "service" /\ probe.caller = probe.token.user_id)
            /\ (/\ probe.fn \in MutatingRoutes
                /\ probe.stage # "handler"
                /\ probe.bodyOK
                /\ probe.token.kind # "valid") =>
                  (probe.stage = "done" /\ probe.status = 401))
    /\ [][(probe' # NoProbe /\ probe'.fn \in MutatingRoutes
              /\ probe'.stage = "done" /\ probe'.status = 401) =>
             UNCHANGED <<packages, versions, downloads, objects>>]_vars

====
